---- MODULE Spec2Model ----
(***************************************************************************)
(* A model of alembic's revision graph and of the ScriptDirectory          *)
(* operations that plan over it (src/alembic/script.py).                   *)
(*                                                                         *)
(* ScriptDirectory delegates the graph work to alembic.revision            *)
(* (RevisionMap), which is not among the source files; the definitions     *)
(* that stand for RevisionMap follow sections 3 and 4 of the               *)
(* specification and the expectations of src/tests/test_revision.py.       *)
(*                                                                         *)
(* Python values are written uniformly: an identifier argument is a        *)
(* sequence of strings (<<>> is None / "base", <<"a">> is "a",             *)
(* <<"a","b">> is ["a","b"]), a tuple of revisions is a sequence of ids.   *)
(***************************************************************************)
EXTENDS Naturals, Sequences, FiniteSets, TLC

VARIABLES
    recs,         \* the raw revision records, in the order they were supplied
    rmap,         \* RevisionMap._revision_map: id -> [down_revision, nextrev]
    heads,        \* RevisionMap.heads
    bases,        \* RevisionMap.bases
    pc,           \* "idle" | "walk" | "done"
    call,         \* the ScriptDirectory / RevisionMap call in progress
    todo,         \* the walk's work stack, top first
    total_space,  \* the nodes the walk will produce
    visited,      \* the nodes the walk has popped so far
    out,          \* the nodes the walk has yielded so far, in order
    raised,       \* the alembic.revision error raised by the call, if any
    result        \* what the ScriptDirectory call returned or raised

vars == <<recs, rmap, heads, bases, pc, call, todo, total_space, visited,
          out, raised, result>>

-----------------------------------------------------------------------------
(* Bounds of the model *)

\* generated graphs have at most this many revisions
MaxNodes == 3
\* a generated revision lists at most this many down revisions
MaxParents == 2
\* a sequence of several upper revisions / current heads has at most this many
MaxHeads == 2
\* record sequences up to this length are compared under all their orderings
MaxPermLen == 4
\* the same stamp request is made at most this many times in a row
MaxRepeat == 2

-----------------------------------------------------------------------------
(* Helpers on sequences and sets *)

Range(s) == {s[i] : i \in 1..Len(s)}

Reverse(s) == [i \in 1..Len(s) |-> s[Len(s) + 1 - i]]

IsPrefix(s, t) == Len(s) <= Len(t) /\ \A i \in 1..Len(s) : s[i] = t[i]

\* index of the first occurrence of x in s, 0 when absent
IndexOf(s, x) ==
    IF x \in Range(s) THEN CHOOSE i \in 1..Len(s) : s[i] = x /\ \A j \in 1..(i-1) : s[j] # x
    ELSE 0

Count(s, x) == Cardinality({i \in 1..Len(s) : s[i] = x})

\* the sequences without repetition, of length at most n, over S
InjSeqs(S, n) ==
    UNION {{s \in [1..k -> S] : \A i, j \in 1..k : i # j => s[i] # s[j]} : k \in 0..n}

\* all orderings of the finite set S, as sequences
Orderings(S) ==
    {s \in [1..Cardinality(S) -> S] : \A i, j \in 1..Cardinality(S) : i # j => s[i] # s[j]}

\* all orderings of the elements of the sequence s (its elements are distinct)
PermsOf(s) == {[i \in 1..Len(s) |-> s[p[i]]] : p \in Orderings(1..Len(s))}

-----------------------------------------------------------------------------
(* Revision records and the graphs the model runs on *)

Revision(id, down) == [revision |-> id, down_revision |-> down]

\* DownwardsIterationTest.test_straight
StraightRecs ==
    << Revision("a", <<>>), Revision("b", <<"a">>), Revision("c", <<"b">>) >>

\* DownwardsIterationTest.test_diamond
DiamondRecs ==
    << Revision("a", <<>>), Revision("b1", <<"a">>), Revision("b2", <<"a">>),
       Revision("c", <<"b1", "b2">>), Revision("d", <<"c">>) >>

\* DownwardsIterationTest.test_many_branches
ManyBranchesRecs ==
    << Revision("a", <<>>), Revision("b1", <<"a">>), Revision("b2", <<"a">>),
       Revision("cb1", <<"b1">>), Revision("cb2", <<"b2">>),
       Revision("d1cb1", <<"cb1">>), Revision("d2cb1", <<"cb1">>),
       Revision("d1cb2", <<"cb2">>), Revision("d2cb2", <<"cb2">>),
       Revision("d3cb2", <<"cb2">>),
       Revision("d1d2cb2", <<"d1cb2", "d2cb2">>) >>

\* DownwardsIterationTest.test_branch_travelling
BranchTravellingRecs ==
    << Revision("a1", <<>>), Revision("a2", <<"a1">>), Revision("a3", <<"a2">>),
       Revision("b1", <<"a3">>), Revision("b2", <<"a3">>),
       Revision("cb1", <<"b1">>), Revision("cb2", <<"b2">>),
       Revision("db1", <<"cb1">>), Revision("db2", <<"cb2">>),
       Revision("e1b1", <<"db1">>), Revision("fe1b1", <<"e1b1">>),
       Revision("e2b1", <<"db1">>), Revision("e2b2", <<"db2">>),
       Revision("merge", <<"e2b1", "e2b2">>) >>

Fixtures == {StraightRecs, DiamondRecs, ManyBranchesRecs, BranchTravellingRecs}

\* ids of generated revisions, oldest first
NodeNames == <<"n1", "n2", "n3", "n4", "n5", "n6", "n7", "n8", "n9">>

\* the down_revision tuples the k-th generated revision may carry
DownChoices(k) == InjSeqs({NodeNames[i] : i \in 1..(k-1)}, MaxParents)

\* every acyclic, validly-referenced record list of n generated revisions
GeneratedRecs(n) ==
    {[i \in 1..n |-> Revision(NodeNames[i], ds[i])] :
        ds \in {f \in [1..n -> DownChoices(n)] : \A i \in 1..n : f[i] \in DownChoices(i)}}

Generated == UNION {GeneratedRecs(n) : n \in 1..MaxNodes}

Ids(rs) == {rs[i].revision : i \in 1..Len(rs)}

-----------------------------------------------------------------------------
(* RevisionMap: construction (spec 3, 4.1) *)

\* pass 1: one node per record, no children yet
Nodes(rs) ==
    [id \in Ids(rs) |->
        [down_revision |-> (CHOOSE r \in Range(rs) : r.revision = id).down_revision,
         nextrev |-> {}]]

\* register rev as a child of each of its down revisions
AddNextrev(m, rev, down) ==
    [id \in DOMAIN m |->
        IF id \in Range(down)
        THEN [m[id] EXCEPT !.nextrev = @ \cup {rev}]
        ELSE m[id]]

RECURSIVE LinkFrom(_, _, _)
\* pass 2: walk the records in order and fill in the children
LinkFrom(m, rs, i) ==
    IF i > Len(rs) THEN m
    ELSE LinkFrom(AddNextrev(m, rs[i].revision, rs[i].down_revision), rs, i + 1)

RECURSIVE LinkSeen(_, _, _)
\* a build that links a record only to the parents supplied before it
LinkSeen(m, rs, i) ==
    IF i > Len(rs) THEN m
    ELSE LinkSeen(
            AddNextrev(m, rs[i].revision,
                SelectSeq(rs[i].down_revision,
                    LAMBDA d : \E j \in 1..(i-1) : rs[j].revision = d)),
            rs, i + 1)

BuildSinglePass(rs) == LinkSeen(Nodes(rs), rs, 1)

\* the node map with every derived child list
BuildMap(rs) == LinkFrom(Nodes(rs), rs, 1)

\* heads: the nodes with is_head
HeadsOf(m) == {id \in DOMAIN m : m[id].nextrev = {}}

\* bases: the nodes with no down revision
BasesOf(m) == {id \in DOMAIN m : m[id].down_revision = <<>>}

is_head(m, id) == m[id].nextrev = {}
is_branch_point(m, id) == Cardinality(m[id].nextrev) > 1
is_merge_point(m, id) == Len(m[id].down_revision) > 1

-----------------------------------------------------------------------------
(* RevisionMap: ancestor / descendant queries (spec 4.2) *)

RECURSIVE AncestorNodes(_, _)
\* _get_ancestor_nodes: the closure over down_revision, targets included
AncestorNodes(m, S) ==
    LET n == S \cup UNION {Range(m[x].down_revision) : x \in S}
    IN IF n = S THEN S ELSE AncestorNodes(m, n)

RECURSIVE DescendantNodes(_, _)
\* _get_descendant_nodes: the closure over nextrev, targets included
DescendantNodes(m, S) ==
    LET n == S \cup UNION {m[x].nextrev : x \in S}
    IN IF n = S THEN S ELSE DescendantNodes(m, n)

\* x and y are on one lineage: one is an ancestor-or-self of the other
Related(m, x, y) == x \in AncestorNodes(m, {y}) \/ y \in AncestorNodes(m, {x})

\* no two members of the sequence s are on one lineage
Antichain(m, s) == \A i, j \in 1..Len(s) : i # j => ~Related(m, s[i], s[j])

-----------------------------------------------------------------------------
(* RevisionMap: identifier resolution (spec 3, 4.1) *)

NoError == [type |-> "none", lower |-> <<>>, upper |-> <<>>, heads |-> {},
            argument |-> <<>>]

\* RangeNotAncestorError(lower, upper)
RangeNotAncestorError(lower, upper) ==
    [type |-> "RangeNotAncestorError", lower |-> lower, upper |-> upper,
     heads |-> {}, argument |-> <<>>]

\* MultipleHeads(heads, argument)
MultipleHeads(hs, argument) ==
    [type |-> "MultipleHeads", lower |-> <<>>, upper |-> <<>>, heads |-> hs,
     argument |-> argument]

Resolved(revs) == [error |-> NoError, revs |-> revs]
Failed(err) == [error |-> err, revs |-> <<>>]

\* get_revisions(id_): the outcomes of resolving an identifier argument.
\* None and "base" resolve to no revision, "heads" to every head (a set: any
\* order), "head" to the only head or to MultipleHeads, ids to themselves.
GetRevisions(hs, id_) ==
    IF id_ = <<>> \/ id_ = <<"base">> THEN {Resolved(<<>>)}
    ELSE IF id_ = <<"heads">> THEN {Resolved(s) : s \in Orderings(hs)}
    ELSE IF id_ = <<"head">> THEN
        IF Cardinality(hs) > 1 THEN {Failed(MultipleHeads(hs, id_))}
        ELSE {Resolved(s) : s \in Orderings(hs)}
    ELSE {Resolved(id_)}

\* RevisionMap.get_current_head(): get_revisions("head"), as one id or None
RevisionMapGetCurrentHead(hs) == GetRevisions(hs, <<"head">>)

-----------------------------------------------------------------------------
(* RevisionMap: the ordered walk between two boundaries (spec 4.3) *)

\* with implicit_base, the part of the uppers' ancestry that matches no
\* requested lower runs down to its own base
ImplicitBaseSpace(m, upper_ancestors, requested_lowers) ==
    {n \in upper_ancestors : \A l \in requested_lowers : ~Related(m, n, l)}

\* the nodes the walk will produce
TotalSpace(m, bs, uppers, requested_lowers, implicit_base) ==
    LET upper_ancestors == AncestorNodes(m, Range(uppers))
        req == Range(requested_lowers)
        lowers == IF req = {} THEN bs ELSE req
    IN  (upper_ancestors \cap DescendantNodes(m, lowers))
        \cup (IF implicit_base THEN ImplicitBaseSpace(m, upper_ancestors, req) ELSE {})

\* a walk that waits at a branch point for every child, walked or not
ReadyAllChildren(m, space, vis, p) == m[p].nextrev \subseteq vis

\* p may be travelled: every walked branch that converges on p has been
\* exhausted down to it
Ready(m, space, vis, p) == (m[p].nextrev \cap space) \subseteq vis

\* a walk that takes the parents of a merge point last-listed first
ParentsToPushReversed(m, space, vis, rev) ==
    SelectSeq(Reverse(m[rev].down_revision),
        LAMBDA p : p \in space /\ Ready(m, space, vis, p))

\* the parents pushed after rev is popped, first-listed on top
ParentsToPush(m, space, vis, rev) ==
    SelectSeq(m[rev].down_revision,
        LAMBDA p : p \in space /\ Ready(m, space, vis, p))

\* whether a popped node is yielded (the inclusivity rule at the boundary)
Yields(c, rev) == c.inclusive \/ rev \notin Range(c.requested_lowers)

\* one iteration of the walk: pop, yield, push the parents
WalkStep(m, c, space, w) ==
    LET rev == Head(w.todo)
        vis == w.visited \cup {rev}
    IN  [todo |-> ParentsToPush(m, space, vis, rev) \o Tail(w.todo),
         visited |-> vis,
         out |-> IF Yields(c, rev) THEN Append(w.out, rev) ELSE w.out]

\* a work stack seeded with the first upper only
InitialTodoFirstOnly(uppers, space) ==
    SelectSeq(SubSeq(uppers, 1, 1), LAMBDA r : r \in space)

\* the work stack a walk starts from
InitialTodo(uppers, space) == SelectSeq(uppers, LAMBDA r : r \in space)

RECURSIVE WalkRun(_, _, _, _)
WalkRun(m, c, space, w) ==
    IF w.todo = <<>> THEN w.out ELSE WalkRun(m, c, space, WalkStep(m, c, space, w))

\* the whole sequence of a walk over map m for the resolved call c
WalkAll(m, bs, c) ==
    LET space == TotalSpace(m, bs, c.uppers, c.requested_lowers, c.implicit_base)
    IN  WalkRun(m, c, space,
            [todo |-> InitialTodo(c.uppers, space), visited |-> {}, out |-> <<>>])

-----------------------------------------------------------------------------
(* ScriptDirectory: error reporting *)

AncestorDefault ==
    "Requested range %(start)s:%(end)s does not refer to ancestor/descendant revisions along the same branch"

MultipleHeadsDefault ==
    "Multiple head revisions are present for given argument '%(head_arg)s'; please specify a specific target revision, '<branchname>@%(head_arg)s' to narrow to a specific head, or 'heads' for all heads"

NoKw == [ancestor |-> "", multiple_heads |-> "", start |-> <<>>, end_ |-> <<>>]

NoMessage == [template |-> "", start |-> <<>>, end_ |-> <<>>, head_arg |-> <<>>,
              heads |-> {}]

NoResult == [status |-> "none", revs |-> <<>>, steps |-> <<>>, message |-> NoMessage]

Returned(revs, steps) ==
    [status |-> "ok", revs |-> revs, steps |-> steps, message |-> NoMessage]

CommandError(message) ==
    [status |-> "CommandError", revs |-> <<>>, steps |-> <<>>, message |-> message]

\* an error handler that reports the range in the error's own order
CatchSwapped(err, kw) ==
    IF err.type = "RangeNotAncestorError" THEN
        CommandError([template |-> IF kw.ancestor = "" THEN AncestorDefault ELSE kw.ancestor,
                      start |-> IF kw.end_ = <<>> THEN err.upper ELSE kw.end_,
                      end_ |-> IF kw.start = <<>> THEN err.lower ELSE kw.start,
                      head_arg |-> <<>>, heads |-> {}])
    ELSE
        CommandError([template |-> IF kw.multiple_heads = "" THEN MultipleHeadsDefault
                                   ELSE kw.multiple_heads,
                      start |-> <<>>, end_ |-> <<>>,
                      head_arg |-> IF kw.end_ # <<>> THEN kw.end_ ELSE err.argument,
                      heads |-> err.heads])

\* _catch_revision_errors: the CommandError an alembic.revision error becomes
CatchRevisionErrors(err, kw) ==
    IF err.type = "RangeNotAncestorError" THEN
        CommandError([template |-> IF kw.ancestor = "" THEN AncestorDefault ELSE kw.ancestor,
                      start |-> IF kw.start = <<>> THEN err.lower ELSE kw.start,
                      end_ |-> IF kw.end_ = <<>> THEN err.upper ELSE kw.end_,
                      head_arg |-> <<>>, heads |-> {}])
    ELSE
        CommandError([template |-> IF kw.multiple_heads = "" THEN MultipleHeadsDefault
                                   ELSE kw.multiple_heads,
                      start |-> <<>>, end_ |-> <<>>,
                      head_arg |-> IF kw.end_ # <<>> THEN kw.end_ ELSE err.argument,
                      heads |-> err.heads])

Propagated(err) ==
    [status |-> err.type, revs |-> <<>>, steps |-> <<>>, message |-> NoMessage]

-----------------------------------------------------------------------------
(* The state machine *)

NoCall ==
    [method |-> "", upper |-> <<>>, lower |-> <<>>, uppers |-> <<>>,
     requested_lowers |-> <<>>, inclusive |-> TRUE, implicit_base |-> FALSE,
     catches |-> FALSE, kw |-> NoKw, revision |-> <<>>, heads |-> <<>>,
     a1 |-> <<>>, a2 |-> <<>>, nth |-> 1, revid |-> "", splice |-> FALSE,
     refresh |-> FALSE]

\* the state after RevisionMap has been built from the records rs
Built(rs) ==
    /\ recs = rs
    /\ rmap = BuildMap(rs)
    /\ heads = HeadsOf(rmap)
    /\ bases = BasesOf(rmap)
    /\ pc = "idle"
    /\ call = NoCall
    /\ todo = <<>>
    /\ total_space = {}
    /\ visited = {}
    /\ out = <<>>
    /\ raised = NoError
    /\ result = NoResult

Init == \E rs \in Fixtures \cup Generated : Built(rs)

AllIds == DOMAIN rmap

\* one revision id
SingleArgs == {<<id>> : id \in AllIds}

\* several revisions no two of which are on one lineage, as heads are
HeadSeqs == {s \in InjSeqs(AllIds, MaxHeads) : Antichain(rmap, s)}

UpperArgs == HeadSeqs \ {<<>>}

LowerArgs == SingleArgs \cup {<<>>, <<"base">>}

\* the call ends at once with the alembic.revision error err
Fails(c, err) ==
    /\ pc' = "done"
    /\ call' = c
    /\ raised' = err
    /\ result' = IF c.catches THEN CatchRevisionErrors(err, c.kw) ELSE Propagated(err)
    /\ UNCHANGED <<recs, rmap, heads, bases, todo, total_space, visited, out>>

\* RevisionMap.iterate_revisions(upper, lower, inclusive, implicit_base), up
\* to its first yield: resolve both boundaries, compute the nodes to produce,
\* fail when there are none, else seed the work stack.  a1 and a2 are the
\* arguments the calling method was given, in its own order.
BeginWalk(c1, a1, a2) ==
    /\ pc = "idle"
    /\ LET c0 == [c1 EXCEPT !.a1 = a1, !.a2 = a2] IN
       \E rl \in GetRevisions(heads, c0.lower), ru \in GetRevisions(heads, c0.upper) :
        IF rl.error # NoError THEN Fails(c0, rl.error)
        ELSE IF ru.error # NoError THEN Fails(c0, ru.error)
        ELSE
            LET c == [c0 EXCEPT !.uppers = ru.revs, !.requested_lowers = rl.revs]
                space == TotalSpace(rmap, bases, c.uppers, c.requested_lowers,
                                    c.implicit_base)
            IN  IF space = {}
                THEN Fails(c, RangeNotAncestorError(c.lower, c.upper))
                ELSE /\ pc' = "walk"
                     /\ call' = c
                     /\ total_space' = space
                     /\ todo' = InitialTodo(c.uppers, space)
                     /\ visited' = {}
                     /\ out' = <<>>
                     /\ UNCHANGED <<recs, rmap, heads, bases, raised, result>>

\* a direct use of RevisionMap.iterate_revisions, as the tests make it
RevisionMapIterate ==
    /\ pc = "idle"
    /\ \E upper \in UpperArgs, lower \in LowerArgs, inclusive \in BOOLEAN,
       implicit_base \in BOOLEAN :
        BeginWalk([NoCall EXCEPT !.method = "RevisionMap.iterate_revisions",
                                 !.upper = upper, !.lower = lower,
                                 !.inclusive = inclusive,
                                 !.implicit_base = implicit_base],
                  upper, lower)

\* what iterate_revisions passes when the caller leaves `inclusive` out
DefaultInclusive == TRUE

\* a ScriptDirectory.iterate_revisions that hands its boundaries over swapped
iterate_revisions_swapped(upper, lower) ==
    [NoCall EXCEPT !.method = "iterate_revisions", !.upper = lower, !.lower = upper,
                   !.inclusive = DefaultInclusive]

\* ScriptDirectory.iterate_revisions(upper, lower)
iterate_revisions(upper, lower) ==
    [NoCall EXCEPT !.method = "iterate_revisions", !.upper = upper, !.lower = lower,
                   !.inclusive = DefaultInclusive]

IterateRevisions ==
    /\ pc = "idle"
    /\ \E upper \in UpperArgs, lower \in SingleArgs :
        BeginWalk(iterate_revisions(upper, lower), upper, lower)

\* a walk_revisions that leaves the lower boundary out
walk_revisions_exclusive(base, head) ==
    [NoCall EXCEPT !.method = "walk_revisions", !.upper = head, !.lower = base,
                   !.inclusive = FALSE, !.catches = TRUE,
                   !.kw = [NoKw EXCEPT !.start = base, !.end_ = head]]

\* ScriptDirectory.walk_revisions(base, head)
walk_revisions(base, head) ==
    [NoCall EXCEPT !.method = "walk_revisions", !.upper = head, !.lower = base,
                   !.inclusive = TRUE, !.catches = TRUE,
                   !.kw = [NoKw EXCEPT !.start = base, !.end_ = head]]

WalkRevisions ==
    /\ pc = "idle"
    /\ \E base \in SingleArgs \cup {<<"base">>},
       head \in SingleArgs \cup {<<"heads">>, <<"head">>} :
        BeginWalk(walk_revisions(base, head), base, head)

UpgradeAncestor == "Destination %(end)s is not a valid upgrade target from current head(s)"

\* ScriptDirectory._upgrade_revs(destination, current_rev), up to the walk
upgrade_revs(destination, current_rev) ==
    [NoCall EXCEPT !.method = "_upgrade_revs", !.upper = destination,
                   !.lower = current_rev, !.inclusive = DefaultInclusive,
                   !.implicit_base = TRUE, !.catches = TRUE,
                   !.kw = [NoKw EXCEPT !.ancestor = UpgradeAncestor,
                                       !.end_ = destination]]

UpgradeRevsCall ==
    /\ pc = "idle"
    /\ \E destination \in SingleArgs \cup {<<"heads">>, <<"head">>},
       current_rev \in HeadSeqs :
        BeginWalk(upgrade_revs(destination, current_rev), destination, current_rev)

\* the walk's loop body
WalkNext ==
    /\ pc = "walk"
    /\ todo # <<>>
    /\ LET w == WalkStep(rmap, call, total_space,
                         [todo |-> todo, visited |-> visited, out |-> out])
       IN  /\ todo' = w.todo
           /\ visited' = w.visited
           /\ out' = w.out
    /\ UNCHANGED <<recs, rmap, heads, bases, pc, call, total_space, raised, result>>

\* MigrationStep.upgrade_from_script: the step that applies one revision
UpgradeStep(m, id) ==
    [kind |-> "revision", from_ |-> m[id].down_revision, to_ |-> <<id>>,
     is_upgrade |-> TRUE, branch_move |-> FALSE]

\* an upgrade plan in the order the walk yields
UpgradeStepsUnreversed(m, revs) == [i \in 1..Len(revs) |-> UpgradeStep(m, revs[i])]

\* the steps _upgrade_revs returns for the walked revisions
UpgradeSteps(m, revs) ==
    [i \in 1..Len(revs) |-> UpgradeStep(m, Reverse(revs)[i])]

\* the walk is exhausted: the caller gets its sequence
WalkReturn ==
    /\ pc = "walk"
    /\ todo = <<>>
    /\ pc' = "done"
    /\ result' = IF call.method = "_upgrade_revs"
                 THEN Returned(<<>>, UpgradeSteps(rmap, out))
                 ELSE Returned(out, <<>>)
    /\ UNCHANGED <<recs, rmap, heads, bases, call, todo, total_space, visited, out,
                   raised>>

-----------------------------------------------------------------------------
(* ScriptDirectory: queries and the stamp plan *)

\* a call that runs to its end in one step, raising err or returning res
Finish(c, err, res) ==
    /\ pc' = "done"
    /\ call' = c
    /\ raised' = err
    /\ result' = res
    /\ UNCHANGED <<recs, rmap, heads, bases, todo, total_space, visited, out>>

\* the outcome of a resolution made under _catch_revision_errors(**kw)
Caught(r, kw) ==
    IF r.error # NoError
    THEN [raised |-> r.error, result |-> CatchRevisionErrors(r.error, kw)]
    ELSE [raised |-> NoError, result |-> Returned(r.revs, <<>>)]

\* ScriptDirectory.get_revisions(id_)
get_revisions(hs, id_) == {Caught(r, NoKw) : r \in GetRevisions(hs, id_)}

GetRevisionsCall ==
    /\ pc = "idle"
    /\ \E id_ \in SingleArgs \cup {<<"heads">>, <<"head">>, <<"base">>} :
        \E o \in get_revisions(heads, id_) :
            Finish([NoCall EXCEPT !.method = "get_revisions", !.a1 = id_],
                   o.raised, o.result)

CurrentHeadMultipleHeads ==
    "The script directory has multiple heads (due to branching).Please use get_heads(), or merge the branches using alembic merge."

\* a get_current_head that answers with one of several heads
get_current_head_any(hs) ==
    {[raised |-> NoError, result |-> Returned(<<h>>, <<>>)] : h \in hs}

\* ScriptDirectory.get_current_head()
get_current_head(hs) ==
    {Caught(r, [NoKw EXCEPT !.multiple_heads = CurrentHeadMultipleHeads]) :
        r \in RevisionMapGetCurrentHead(hs)}

GetCurrentHead ==
    /\ pc = "idle"
    /\ \E o \in get_current_head(heads) :
        Finish([NoCall EXCEPT !.method = "get_current_head"], o.raised, o.result)

\* ScriptDirectory.get_heads(): list(self.revision_map.heads)
get_heads(hs) == {Returned(s, <<>>) : s \in Orderings(hs)}

GetHeads ==
    /\ pc = "idle"
    /\ \E r \in get_heads(heads) :
        Finish([NoCall EXCEPT !.method = "get_heads"], NoError, r)

\* a get_bases that answers with one base only, as get_base does
get_bases_single(bs) == {Returned(<<b>>, <<>>) : b \in bs}

\* ScriptDirectory.get_bases(): list(self.revision_map.bases)
get_bases(bs) == {Returned(s, <<>>) : s \in Orderings(bs)}

GetBases ==
    /\ pc = "idle"
    /\ \E r \in get_bases(bases) :
        Finish([NoCall EXCEPT !.method = "get_bases"], NoError, r)

None == "None"

\* migration.StampStep(from_, to_, is_upgrade, branch_move)
StampStep(from_, to_, is_upgrade, branch_move) ==
    [kind |-> "stamp", from_ |-> from_, to_ |-> to_, is_upgrade |-> is_upgrade,
     branch_move |-> branch_move]

\* RevisionMap.filter_for_lineage(targets, check_against): the targets on the
\* lineage of the resolved reference; all of them when it resolves to base
FilterForLineage(m, targets, dest) ==
    SelectSeq(targets, LAMBDA t : dest = <<>> \/ Related(m, t, dest[1]))

StampMultipleHeads == "Multiple heads are present; please specify a single target revision"

AssertionError ==
    [type |-> "AssertionError", lower |-> <<>>, upper |-> <<>>, heads |-> {},
     argument |-> <<>>]

\* a plan that removes all the heads with a single step
RemoveStepsSingle(filtered_heads) == <<StampStep(filtered_heads, <<>>, FALSE, TRUE)>>

\* dest is base: a "delete branch" step for each applicable head
RemoveSteps(filtered_heads) ==
    [i \in 1..Len(filtered_heads) |-> StampStep(<<filtered_heads[i]>>, <<>>, FALSE, TRUE)]

\* a test that looks for the heads below the target instead
HeadsAboveMistaken(m, filtered_heads, dest) ==
    AncestorNodes(m, {dest[1]}) \cap Range(filtered_heads) # {}

\* some selected head is a descendant of dest: the heads are above the target
HeadsAbove(m, filtered_heads, dest) ==
    DescendantNodes(m, {dest[1]}) \cap Range(filtered_heads) # {}

\* some selected head is an ancestor of dest: the heads are below the target
HeadsBelow(m, filtered_heads, dest) ==
    AncestorNodes(m, {dest[1]}) \cap Range(filtered_heads) # {}

\* the step list for a resolved destination, or the failed assertion
StampSteps(m, filtered_heads, dest) ==
    IF dest = <<>> THEN
        [raised |-> NoError, result |-> Returned(<<>>, RemoveSteps(filtered_heads))]
    ELSE IF dest[1] \in Range(filtered_heads) THEN
        [raised |-> NoError, result |-> Returned(<<>>, <<>>)]
    ELSE IF HeadsAbove(m, filtered_heads, dest) THEN
        IF HeadsBelow(m, filtered_heads, dest)
        THEN [raised |-> AssertionError, result |-> Propagated(AssertionError)]
        ELSE [raised |-> NoError,
              result |-> Returned(<<>>, <<StampStep(filtered_heads, dest, FALSE, FALSE)>>)]
    ELSE IF HeadsBelow(m, filtered_heads, dest) THEN
        [raised |-> NoError,
         result |-> Returned(<<>>, <<StampStep(filtered_heads, dest, TRUE, FALSE)>>)]
    ELSE
        [raised |-> NoError,
         result |-> Returned(<<>>, <<StampStep(<<None>>, dest, TRUE, TRUE)>>)]

\* ScriptDirectory._stamp_revs(revision, heads)
stamp_revs(m, hs, revision, heads_arg) ==
    {IF r.error # NoError
     THEN Caught(r, [NoKw EXCEPT !.multiple_heads = StampMultipleHeads])
     ELSE StampSteps(m, FilterForLineage(m, heads_arg, r.revs), r.revs) :
        r \in GetRevisions(hs, revision)}

StampRevs ==
    /\ pc = "idle"
    /\ \E revision \in SingleArgs \cup {<<>>, <<"head">>}, heads_arg \in HeadSeqs :
        \E o \in stamp_revs(rmap, heads, revision, heads_arg) :
            Finish([NoCall EXCEPT !.method = "_stamp_revs", !.a1 = revision,
                                  !.a2 = heads_arg],
                   o.raised, o.result)

\* the caller makes the stamp request it has just made once more
StampAgain ==
    /\ pc = "done"
    /\ call.method = "_stamp_revs"
    /\ call.nth < MaxRepeat
    /\ \E o \in stamp_revs(rmap, heads, call.a1, call.a2) :
        Finish([call EXCEPT !.nth = @ + 1], o.raised, o.result)

Next ==
    \/ RevisionMapIterate
    \/ IterateRevisions
    \/ WalkRevisions
    \/ UpgradeRevsCall
    \/ WalkNext
    \/ WalkReturn
    \/ GetRevisionsCall
    \/ GetCurrentHead
    \/ GetHeads
    \/ GetBases
    \/ StampRevs
    \/ StampAgain

Spec == Init /\ [][Next]_vars

-----------------------------------------------------------------------------
(* Properties of the walk *)

Walking == pc = "walk" \/ (pc = "done" /\ raised = NoError /\ total_space # {})

\* an inclusive walk between the given boundaries, made directly on the map
\* or through ScriptDirectory.iterate_revisions
InclusiveWalk(rs, upper, lower) ==
    /\ pc # "idle"
    /\ recs = rs
    /\ call.method \in {"RevisionMap.iterate_revisions", "iterate_revisions"}
    /\ call.a1 = upper
    /\ call.a2 = lower
    /\ call.inclusive
    /\ ~call.implicit_base

\* the walk in progress yields `expected`: never anything off it, all of it
\* once done
YieldsExactly(expected) ==
    /\ raised = NoError
    /\ IsPrefix(out, expected)
    /\ pc = "done" => result.revs = expected

\* the nodes several walked branches converge on
Barriers == {x \in total_space : Cardinality(rmap[x].nextrev \cap total_space) > 1}

\* x is yielded by this walk when it is reached
Yielded(x) == Yields(call, x)

BranchTravelling1 ==
    <<"merge", "e2b1", "db1", "cb1", "b1", "e2b2", "db2", "cb2", "b2", "a3", "a2", "a1">>

BranchTravelling2 ==
    <<"merge", "e2b1", "e2b2", "db2", "cb2", "b2", "fe1b1", "e1b1", "db1", "cb1", "b1",
      "a3", "a2", "a1">>

\* C1: in every walk, a node X on which several walked branches converge is
\* yielded at most once (exactly once by the end, when it is to be yielded at
\* all), and a proper ancestor of X is yielded only after X and every walked
\* descendant of X have been travelled; on the 14-node fixture
\* walk("merge","a1") and walk(["merge","fe1b1"],"a1") yield the two
\* sequences of test_branch_travelling, with a3, respectively db1 and a3, as
\* the convergence points.
C1_BranchTravelling ==
    /\ Walking =>
        \A x \in Barriers :
            /\ Count(out, x) <= 1
            /\ (pc = "done" /\ Yielded(x)) => Count(out, x) = 1
            /\ \A i \in 1..Len(out) :
                (out[i] # x /\ out[i] \in AncestorNodes(rmap, {x})) =>
                    \A d \in total_space \cap DescendantNodes(rmap, {x}) :
                        /\ d \in visited
                        /\ Yielded(d) => (IndexOf(out, d) > 0 /\ IndexOf(out, d) < i)
    /\ InclusiveWalk(BranchTravellingRecs, <<"merge">>, <<"a1">>) =>
        /\ YieldsExactly(BranchTravelling1)
        /\ Barriers = {"a3"}
    /\ InclusiveWalk(BranchTravellingRecs, <<"merge", "fe1b1">>, <<"a1">>) =>
        /\ YieldsExactly(BranchTravelling2)
        /\ Barriers = {"db1", "a3"}

\* both sequences of test_branch_travelling have been produced in full
\* through ScriptDirectory.iterate_revisions; this is the second
C1_Witness ==
    /\ pc = "done"
    /\ call.method = "iterate_revisions"
    /\ InclusiveWalk(BranchTravellingRecs, <<"merge", "fe1b1">>, <<"a1">>)
    /\ result.revs = BranchTravelling2
    /\ Barriers = {"db1", "a3"}

\* C2: only the branches that are part of the walk take part in a barrier:
\* nothing outside the ancestry of the uppers is ever yielded, and a node
\* whose only walked child is rev is yielded right after rev; on the
\* many-branches fixture walk("d1d2cb2","a") yields
\* [d1d2cb2,d1cb2,d2cb2,cb2,b2,a] and walk("d3cb2","a") yields
\* [d3cb2,cb2,b2,a].
C2_ManyBranches ==
    /\ Walking =>
        /\ Range(out) \subseteq AncestorNodes(rmap, Range(call.uppers))
        /\ \A i \in 1..Len(out) :
            LET rev == out[i]
                down == rmap[rev].down_revision
            IN  (/\ Len(down) = 1
                 /\ down[1] \in total_space
                 /\ rmap[down[1]].nextrev \cap total_space = {rev}
                 /\ Yielded(down[1])
                 /\ (i < Len(out) \/ pc = "done"))
                => (i < Len(out) /\ out[i + 1] = down[1])
    /\ InclusiveWalk(ManyBranchesRecs, <<"d1d2cb2">>, <<"a">>) =>
        YieldsExactly(<<"d1d2cb2", "d1cb2", "d2cb2", "cb2", "b2", "a">>)
    /\ InclusiveWalk(ManyBranchesRecs, <<"d3cb2">>, <<"a">>) =>
        YieldsExactly(<<"d3cb2", "cb2", "b2", "a">>)

\* the walk from the merge d1d2cb2 is done: cb2 came once, after d1cb2 and
\* d2cb2, and its third child d3cb2 was not waited on
C2_Witness ==
    /\ pc = "done"
    /\ InclusiveWalk(ManyBranchesRecs, <<"d1d2cb2">>, <<"a">>)
    /\ out = <<"d1d2cb2", "d1cb2", "d2cb2", "cb2", "b2", "a">>
    /\ "d3cb2" \in rmap["cb2"].nextrev \ visited

\* C3: on the diamond the walk from d to a yields exactly [d,c,b1,b2,a]: the
\* parents of the merge point c in the order c lists them, then their shared
\* ancestor a, once.
C3_Diamond ==
    InclusiveWalk(DiamondRecs, <<"d">>, <<"a">>) =>
        /\ YieldsExactly(<<"d", "c", "b1", "b2", "a">>)
        /\ pc = "done" =>
            /\ rmap["c"].down_revision = <<"b1", "b2">>
            /\ IndexOf(out, "b1") < IndexOf(out, "b2")
            /\ IndexOf(out, "b2") < IndexOf(out, "a")
            /\ Count(out, "a") = 1

C3_Witness ==
    /\ pc = "done"
    /\ InclusiveWalk(DiamondRecs, <<"d">>, <<"a">>)
    /\ result.revs = <<"d", "c", "b1", "b2", "a">>

-----------------------------------------------------------------------------
(* Properties of ScriptDirectory's error reporting and resolution *)

WalkMethods == {"RevisionMap.iterate_revisions", "iterate_revisions", "walk_revisions"}

\* a walk without implicit_base was asked for between resolved boundaries
\* none of whose lowers is an ancestor-or-self of any upper
NotAncestorRange ==
    /\ pc # "idle"
    /\ call.method \in WalkMethods
    /\ ~call.implicit_base
    /\ call.uppers # <<>>
    /\ call.requested_lowers # <<>>
    /\ \A l \in Range(call.requested_lowers), u \in Range(call.uppers) :
        l \notin AncestorNodes(rmap, {u})

NoChildren ==
    {n \in Ids(recs) : \A i \in 1..Len(recs) : n \notin Range(recs[i].down_revision)}

\* the call in progress had "head" to resolve
AsksForHead ==
    /\ pc # "idle"
    /\ \/ call.method = "get_current_head"
       \/ call.method = "get_revisions" /\ call.a1 = <<"head">>
       \/ call.method = "walk_revisions" /\ call.a2 = <<"head">>
       \/ call.method = "_upgrade_revs" /\ call.a1 = <<"head">>
       \/ call.method = "_stamp_revs" /\ call.a1 = <<"head">>

\* C5: "heads" resolves to every revision without children; "head"
\* (get_current_head included) fails with MultipleHeads listing all the heads
\* when there are several, reported as a CommandError, and resolves to the
\* head when there is exactly one.
C5_Heads ==
    /\ (pc = "done" /\ (call.method = "get_heads"
                        \/ (call.method = "get_revisions" /\ call.a1 = <<"heads">>))) =>
        /\ result.status = "ok"
        /\ Range(result.revs) = NoChildren
        /\ Len(result.revs) = Cardinality(NoChildren)
    /\ (pc # "idle" /\ call.method \in {"walk_revisions", "_upgrade_revs"}
        /\ call.upper = <<"heads">>) =>
        /\ raised.type # "MultipleHeads"
        /\ Range(call.uppers) = NoChildren
    /\ AsksForHead =>
        IF Cardinality(NoChildren) > 1 THEN
            /\ pc = "done"
            /\ raised.type = "MultipleHeads"
            /\ raised.heads = NoChildren
            /\ raised.argument = <<"head">>
            /\ result.status = "CommandError"
            /\ result.message.heads = NoChildren
            /\ result.revs = <<>> /\ result.steps = <<>> /\ out = <<>>
        ELSE
            /\ raised.type # "MultipleHeads"
            /\ call.method \in {"get_current_head", "get_revisions"} =>
                (result.status = "ok" /\ Range(result.revs) = NoChildren
                 /\ Len(result.revs) = 1)
            /\ call.method \in {"walk_revisions", "_upgrade_revs"} =>
                Range(call.uppers) = NoChildren

\* get_current_head() on the many-branches graph, which has four heads
C5_Witness ==
    /\ pc = "done"
    /\ call.method = "get_current_head"
    /\ recs = ManyBranchesRecs
    /\ raised.type = "MultipleHeads"
    /\ raised.heads = {"d1cb1", "d2cb1", "d3cb2", "d1d2cb2"}
    /\ result.status = "CommandError"

-----------------------------------------------------------------------------
(* Properties of the stamp plan *)

\* a stamp request for a revision id or None has been answered
StampDone ==
    /\ pc = "done"
    /\ call.method = "_stamp_revs"
    /\ call.a1 # <<"head">>

StampTarget == call.a1
CurrentHeads == call.a2

\* the current heads that are an ancestor or a descendant of the target
OnTargetLineage ==
    SelectSeq(CurrentHeads,
        LAMBDA h : h \in AncestorNodes(rmap, {StampTarget[1]})
                   \/ h \in DescendantNodes(rmap, {StampTarget[1]}))

\* C6: the stamp plan follows the relation of the target to the current
\* heads: None gives one remove-head step for each current head; a target
\* among the current heads gives no step, also when the request is repeated;
\* a target that descends from a current head gives one upgrade-direction
\* step from all current heads on its lineage; a target that is an ancestor
\* of a current head gives one downgrade-direction step from them; a target
\* unrelated to every current head gives one new-branch step.
C6_StampPlan ==
    StampDone =>
        /\ raised = NoError
        /\ result.status = "ok"
        /\ IF StampTarget = <<>> THEN
                /\ Len(result.steps) = Len(CurrentHeads)
                /\ \A i \in 1..Len(CurrentHeads) :
                    result.steps[i] = StampStep(<<CurrentHeads[i]>>, <<>>, FALSE, TRUE)
           ELSE IF StampTarget[1] \in Range(CurrentHeads) THEN
                result.steps = <<>>
           ELSE IF \E h \in Range(CurrentHeads) : h \in AncestorNodes(rmap, {StampTarget[1]}) THEN
                result.steps = <<StampStep(OnTargetLineage, StampTarget, TRUE, FALSE)>>
           ELSE IF \E h \in Range(CurrentHeads) : h \in DescendantNodes(rmap, {StampTarget[1]}) THEN
                result.steps = <<StampStep(OnTargetLineage, StampTarget, FALSE, FALSE)>>
           ELSE
                result.steps = <<StampStep(<<None>>, StampTarget, TRUE, TRUE)>>

\* on the diamond with heads b1 and b2 recorded, the request to stamp b1 has
\* been made a second time and has again given no step
C6_Witness ==
    /\ StampDone
    /\ recs = DiamondRecs
    /\ StampTarget = <<"b1">>
    /\ CurrentHeads = <<"b1", "b2">>
    /\ call.nth = 2
    /\ result.steps = <<>>

\* the diamond with heads b1 and b2 recorded has been stamped to c: a single
\* upgrade-direction step from both
StampedUp ==
    /\ StampDone
    /\ recs = DiamondRecs
    /\ StampTarget = <<"c">>
    /\ CurrentHeads = <<"b1", "b2">>
    /\ result.steps = <<StampStep(<<"b1", "b2">>, <<"c">>, TRUE, FALSE)>>

\* C7 as stated: every stamp request gives exactly one step, except that a
\* target already among the current heads gives none.
C7_OneStepOriginal ==
    StampDone =>
        Len(result.steps) =
            IF StampTarget # <<>> /\ StampTarget[1] \in Range(CurrentHeads) THEN 0 ELSE 1

\* C7 (amended): a stamp request gives exactly one step when its target is a
\* revision not among the current heads, no step when the target is among
\* them, and, when the target is None, one remove step for each current head
\* (none for no head, several for several).
C7_OneStep ==
    StampDone =>
        /\ raised = NoError
        /\ Len(result.steps) =
            IF StampTarget = <<>> THEN Len(CurrentHeads)
            ELSE IF StampTarget[1] \in Range(CurrentHeads) THEN 0
            ELSE 1

\* stamping to None with two heads recorded has given two steps
C7_Witness ==
    /\ StampDone
    /\ StampTarget = <<>>
    /\ Len(CurrentHeads) = 2
    /\ Len(result.steps) = 2
    /\ result.steps[1] # result.steps[2]

-----------------------------------------------------------------------------
(* Properties of the upgrade plan *)

UpgradeDone ==
    /\ pc = "done"
    /\ call.method = "_upgrade_revs"
    /\ raised = NoError

\* C8: the upgrade plan holds one step for each node the walk from
\* destination down to current with implicit_base=True yielded, in the
\* reverse of the order of the walk, no revision twice and every revision
\* after each of its parents that is in the plan; with no current revision
\* the request does not fail for its range and the plan runs from the
\* base(s) through every ancestor of the destination.
C8_UpgradePlan ==
    /\ (pc # "idle" /\ call.method = "_upgrade_revs") =>
        /\ call.implicit_base
        /\ call.upper = call.a1
        /\ call.lower = call.a2
        /\ call.a2 = <<>> => raised.type # "RangeNotAncestorError"
    /\ UpgradeDone =>
        LET steps == result.steps
            n == Len(steps)
        IN  /\ n = Len(out)
            /\ \A i \in 1..n :
                /\ steps[i].to_ = <<out[n + 1 - i]>>
                /\ steps[i].from_ = rmap[out[n + 1 - i]].down_revision
                /\ steps[i].is_upgrade
            /\ \A i, j \in 1..n : i # j => steps[i].to_ # steps[j].to_
            /\ \A i, j \in 1..n :
                steps[j].to_[1] \in Range(steps[i].from_) => j < i
            /\ call.a2 = <<>> =>
                /\ {steps[i].to_[1] : i \in 1..n} = AncestorNodes(rmap, Range(call.uppers))
                /\ n > 0
                /\ steps[1].from_ = <<>>

\* the branch-travelling graph upgraded from nothing to merge: twelve steps,
\* a1 first and merge last
C8_Witness ==
    /\ UpgradeDone
    /\ recs = BranchTravellingRecs
    /\ call.a1 = <<"merge">>
    /\ call.a2 = <<>>
    /\ Len(result.steps) = 12
    /\ result.steps[1].to_ = <<"a1">>
    /\ result.steps[12].to_ = <<"merge">>

-----------------------------------------------------------------------------
(* Independence of the order of the records *)

Rotate(s) == IF s = <<>> THEN s ELSE Tail(s) \o <<Head(s)>>

\* ScriptDirectory._load_revisions: the records come in the order
\* os.listdir gives the files, which is any order (all of them for short
\* lists, a reversal and a rotation for long ones)
LoadOrders(rs) ==
    IF Len(rs) <= MaxPermLen THEN PermsOf(rs) ELSE {rs, Reverse(rs), Rotate(rs)}

-----------------------------------------------------------------------------
(* ScriptDirectory.generate_revision and the incremental update of the map *)

\* RevisionMap.add_revision(revision): the single-node update of the map,
\* its heads and its bases
AddRevision(st, script) ==
    [rmap |-> [id \in DOMAIN st.rmap \cup {script.revision} |->
                IF id = script.revision
                THEN [down_revision |-> script.down_revision, nextrev |-> {}]
                ELSE IF id \in Range(script.down_revision)
                THEN [st.rmap[id] EXCEPT !.nextrev = @ \cup {script.revision}]
                ELSE st.rmap[id]],
     heads |-> (st.heads \ Range(script.down_revision)) \cup {script.revision},
     bases |-> IF script.down_revision = <<>>
               THEN st.bases \cup {script.revision} ELSE st.bases]

GenerateMultipleHeads ==
    "Multiple heads are present; please specify the head revision on which the new revision should be based, or perform a merge."

DuplicateHeads == "Duplicate head revisions specified"

NotAHead ==
    "Revision %s is not a head revision; please specify --splice to create a new branch from this revision"

Message(template) == [NoMessage EXCEPT !.template = template]

\* generate_revision up to the writing of the file: the error it raises, or
\* the script it writes (revid on top of the resolved heads)
generate_revision(m, hs, revid, head, splice) ==
    {IF r.error # NoError THEN
        [raised |-> r.error,
         result |-> CatchRevisionErrors(r.error,
                        [NoKw EXCEPT !.multiple_heads = GenerateMultipleHeads]),
         script |-> <<>>]
     ELSE IF Cardinality(Range(r.revs)) # Len(r.revs) THEN
        [raised |-> NoError, result |-> CommandError(Message(DuplicateHeads)),
         script |-> <<>>]
     ELSE IF ~splice /\ \E h \in Range(r.revs) : ~is_head(m, h) THEN
        [raised |-> NoError, result |-> CommandError(Message(NotAHead)), script |-> <<>>]
     ELSE
        [raised |-> NoError, result |-> Returned(<<>>, <<>>),
         script |-> <<Revision(revid, r.revs)>>] :
        r \in GetRevisions(hs, IF head = <<>> THEN <<"head">> ELSE head)}

\* a generate_revision that leaves the in-memory map as it was
refresh_map_never(st, script, refresh) == st

\* generate_revision after the file is written: with refresh the new script
\* is read back and added to the map
refresh_map(st, script, refresh) ==
    IF refresh THEN AddRevision(st, script) ELSE st

\* the head arguments generate_revision is given: None, "head", "base", one
\* revision, several, or one revision twice
GenerateHeadArgs ==
    InjSeqs(AllIds, MaxHeads) \cup {<<"head">>, <<"base">>}
        \cup {<<id, id>> : id \in AllIds}

\* ScriptDirectory.generate_revision(revid, message, head, refresh, splice)
GenerateRevision ==
    /\ pc = "idle"
    /\ Len(recs) < MaxNodes
    /\ \E head \in GenerateHeadArgs, splice \in BOOLEAN, refresh \in BOOLEAN :
        LET revid == NodeNames[Len(recs) + 1]
            c == [NoCall EXCEPT !.method = "generate_revision", !.a1 = head,
                                !.revid = revid, !.splice = splice,
                                !.refresh = refresh]
        IN  \E o \in generate_revision(rmap, heads, revid, head, splice) :
                IF o.script = <<>> THEN
                    /\ call' = c
                    /\ raised' = o.raised
                    /\ result' = o.result
                    /\ UNCHANGED <<recs, rmap, heads, bases, pc, todo, total_space,
                                   visited, out>>
                ELSE
                    LET st == refresh_map([rmap |-> rmap, heads |-> heads,
                                           bases |-> bases], o.script[1], refresh)
                    IN  /\ call' = [c EXCEPT !.uppers = o.script[1].down_revision]
                        /\ raised' = NoError
                        /\ result' = IF refresh THEN Returned(<<revid>>, <<>>)
                                     ELSE Returned(<<>>, <<>>)
                        /\ recs' = IF refresh THEN Append(recs, o.script[1]) ELSE recs
                        /\ rmap' = st.rmap
                        /\ heads' = st.heads
                        /\ bases' = st.bases
                        /\ UNCHANGED <<pc, todo, total_space, visited, out>>

\* a script directory whose map has just been built from a generated graph
\* that leaves room for new revisions
InitGen == \E rs \in UNION {GeneratedRecs(n) : n \in 1..(MaxNodes - 1)} : Built(rs)

NextGen ==
    \/ GenerateRevision
    \/ GetHeads
    \/ GetBases
    \/ GetCurrentHead

SpecGen == InitGen /\ [][NextGen]_vars

\* C9: after any sequence of insertions made by generate_revision with
\* refresh=True, the map, its heads and its bases (hence every node's
\* children, is_head and is_branch_point) are those of a map built afresh
\* from the records it has been given, get_heads() and get_bases() answer
\* accordingly, and right after an insertion the new node is a head and none
\* of its parents is.
C9_IncrementalInsert ==
    LET fresh == BuildMap(recs)
    IN  /\ rmap = fresh
        /\ heads = HeadsOf(fresh)
        /\ bases = BasesOf(fresh)
        /\ \A id \in DOMAIN rmap :
            /\ is_head(rmap, id) <=> id \in heads
            /\ is_branch_point(rmap, id) <=> is_branch_point(fresh, id)
        /\ (pc = "done" /\ call.method = "get_heads") =>
            Range(result.revs) = HeadsOf(fresh)
        /\ (pc = "done" /\ call.method = "get_bases") =>
            Range(result.revs) = BasesOf(fresh)
        /\ (pc = "idle" /\ call.method = "generate_revision" /\ call.refresh
            /\ result.status = "ok") =>
            /\ result.revs = <<call.revid>>
            /\ recs[Len(recs)] = Revision(call.revid, call.uppers)
            /\ call.revid \in heads
            /\ Range(call.uppers) \cap heads = {}
            /\ call.uppers = <<>> <=> call.revid \in bases

\* two insertions in a row: n2 on top of the head n1, then n3 spliced onto
\* n1 as well, which makes n1 a branch point and leaves n2 and n3 as heads
C9_Witness ==
    /\ pc = "idle"
    /\ call.method = "generate_revision"
    /\ call.refresh
    /\ result.status = "ok"
    /\ recs = <<Revision("n1", <<>>), Revision("n2", <<"n1">>), Revision("n3", <<"n1">>)>>
    /\ heads = {"n2", "n3"}
    /\ is_branch_point(rmap, "n1")

-----------------------------------------------------------------------------
(* Termination of the walk *)

\* the uppers a walk may be given: one revision or several, on one lineage
\* or not
AnyUpperArgs == InjSeqs(AllIds, MaxHeads) \ {<<>>}

\* RevisionMap.iterate_revisions on any boundaries
RevisionMapIterateAny ==
    /\ pc = "idle"
    /\ \E upper \in AnyUpperArgs \cup {<<"heads">>}, lower \in LowerArgs,
          implicit_base \in BOOLEAN :
        BeginWalk([NoCall EXCEPT !.method = "RevisionMap.iterate_revisions",
                                 !.upper = upper, !.lower = lower,
                                 !.implicit_base = implicit_base],
                  upper, lower)

NextTerm ==
    \/ RevisionMapIterateAny
    \/ WalkNext
    \/ WalkReturn

\* the walk is a synchronous loop that its caller runs to the end: each
\* iteration that can be made is made
SpecTerm == Init /\ [][NextTerm]_vars /\ WF_vars(WalkNext) /\ WF_vars(WalkReturn)

\* a walk that ended without error left no node of its space waiting
NothingLeftWaiting ==
    (pc = "done" /\ call.method = "RevisionMap.iterate_revisions" /\ raised = NoError)
        => visited = total_space

\* C11: every walk that starts comes to its end, whatever the graph and the
\* boundaries (one upper or several, related or not, with or without
\* implicit_base): a call either fails at once or its loop runs until the
\* work stack is empty, and then no node of the walk is left waiting at a
\* barrier for a branch that never arrives.
C11_WalkTerminates ==
    /\ [](pc = "walk" => todo # <<>> \/ visited = total_space)
    /\ []NothingLeftWaiting
    /\ (pc = "walk") ~> (pc = "done")

\* a walk from two uppers on one lineage, with implicit_base, over a space
\* that has a convergence point, has come to its end
C11_Witness ==
    /\ pc = "done"
    /\ raised = NoError
    /\ recs = DiamondRecs
    /\ call.uppers = <<"d", "b1">>
    /\ call.implicit_base
    /\ Barriers # {}
    /\ visited = total_space

-----------------------------------------------------------------------------
(* Heads and bases *)

\* the revisions whose record has no down revision
NoParents ==
    {n \in Ids(recs) : \E i \in 1..Len(recs) :
        recs[i].revision = n /\ recs[i].down_revision = <<>>}

\* C12: the heads of the map, and what get_heads() returns, are exactly the
\* revisions that no record lists among its down revisions; the bases, and
\* what get_bases() returns, are exactly the revisions without down
\* revision; each is returned once, and there is at least one head and one
\* base.
C12_HeadsAndBases ==
    /\ heads = NoChildren
    /\ bases = NoParents
    /\ heads # {}
    /\ bases # {}
    /\ (pc = "done" /\ call.method = "get_heads") =>
        /\ result.status = "ok"
        /\ Range(result.revs) = NoChildren
        /\ Len(result.revs) = Cardinality(NoChildren)
    /\ (pc = "done" /\ call.method = "get_bases") =>
        /\ result.status = "ok"
        /\ Range(result.revs) = NoParents
        /\ Len(result.revs) = Cardinality(NoParents)

\* get_bases() has answered on a graph with two bases and a merge of them
C12_Witness ==
    /\ pc = "done"
    /\ call.method = "get_bases"
    /\ Cardinality(NoParents) = 2
    /\ Range(result.revs) = NoParents
    /\ \E n \in DOMAIN rmap : Range(rmap[n].down_revision) = NoParents
    /\ Cardinality(NoChildren) = 1

-----------------------------------------------------------------------------
(* The walk along a straight chain *)

\* a graph without branch or merge: one base, and every revision has at most
\* one parent and at most one child
IsChain(m) ==
    /\ Cardinality(BasesOf(m)) = 1
    /\ \A id \in DOMAIN m :
        Len(m[id].down_revision) <= 1 /\ Cardinality(m[id].nextrev) <= 1

\* the revisions from upper down to its ancestor-or-self lower, child first
RECURSIVE ChainDown(_, _, _)
ChainDown(m, upper, lower) ==
    IF upper = lower \/ m[upper].down_revision = <<>> THEN <<upper>>
    ELSE <<upper>> \o ChainDown(m, m[upper].down_revision[1], lower)

\* an inclusive walk on a chain from one revision down to an ancestor-or-self
\* of it
ChainWalk ==
    /\ pc # "idle"
    /\ IsChain(rmap)
    /\ \/ call.method \in {"iterate_revisions", "walk_revisions"}
       \/ call.method = "RevisionMap.iterate_revisions" /\ call.inclusive
    /\ call.upper \in SingleArgs
    /\ call.lower \in SingleArgs
    /\ call.lower[1] \in AncestorNodes(rmap, {call.upper[1]})

\* C13: on a straight chain the inclusive walk from upper down to an
\* ancestor-or-self lower yields exactly the revisions from upper to lower,
\* each once, every revision followed by its parent; on a -> b -> c the walk
\* from c to a yields [c, b, a].
C13_StraightChain ==
    /\ ChainWalk =>
        LET expected == ChainDown(rmap, call.upper[1], call.lower[1])
        IN  /\ YieldsExactly(expected)
            /\ expected[1] = call.upper[1]
            /\ expected[Len(expected)] = call.lower[1]
            /\ \A i \in 1..(Len(expected) - 1) :
                rmap[expected[i]].down_revision = <<expected[i + 1]>>
            /\ \A i, j \in 1..Len(expected) : i # j => expected[i] # expected[j]
    /\ InclusiveWalk(StraightRecs, <<"c">>, <<"a">>) => YieldsExactly(<<"c", "b", "a">>)

\* the walk of test_straight has been made through walk_revisions("a", "c")
C13_Witness ==
    /\ pc = "done"
    /\ ChainWalk
    /\ recs = StraightRecs
    /\ call.method = "walk_revisions"
    /\ call.a1 = <<"a">>
    /\ call.a2 = <<"c">>
    /\ result.revs = <<"c", "b", "a">>

-----------------------------------------------------------------------------
(* The assertion of the stamp plan *)

\* _stamp_revs(revision, heads) given any revisions as the current heads,
\* on one lineage or not
StampRevsAny ==
    /\ pc = "idle"
    /\ \E revision \in SingleArgs \cup {<<>>},
          heads_arg \in InjSeqs(AllIds, MaxHeads) :
        \E o \in stamp_revs(rmap, heads, revision, heads_arg) :
            Finish([NoCall EXCEPT !.method = "_stamp_revs", !.a1 = revision,
                                  !.a2 = heads_arg],
                   o.raised, o.result)

NextStamp == StampRevsAny

SpecStamp == Init /\ [][NextStamp]_vars

\* a stamp request for a revision that is not among the filtered heads and
\* has a filtered head above it
StampWithHeadAbove ==
    /\ pc = "done"
    /\ call.method = "_stamp_revs"
    /\ StampTarget # <<>>
    /\ StampTarget[1] \notin Range(OnTargetLineage)
    /\ \E h \in Range(OnTargetLineage) : h \in DescendantNodes(rmap, {StampTarget[1]})

\* C14 as stated: when a filtered head is a descendant of the target, no
\* filtered head is an ancestor of the target, so the assertion before the
\* downgrade-direction step never fails and the step is produced.
C14_AssertionHolds ==
    StampWithHeadAbove =>
        /\ \A h \in Range(OnTargetLineage) : h \notin AncestorNodes(rmap, {StampTarget[1]})
        /\ raised # AssertionError
        /\ result.steps = <<StampStep(OnTargetLineage, StampTarget, FALSE, FALSE)>>

\* on a -> b -> c with a and c given as the current heads, the request to
\* stamp b has ended in the failed assertion, without a plan
C14_Witness ==
    /\ StampWithHeadAbove
    /\ recs = StraightRecs
    /\ StampTarget = <<"b">>
    /\ CurrentHeads = <<"a", "c">>
    /\ raised = AssertionError
    /\ result.status = "AssertionError"
    /\ result.steps = <<>>

====
